---- MODULE Spec2Model ----
(***************************************************************************)
(* Model of dnsfilter/web.py: the resource tree (RootWebResource,          *)
(* WelcomeHandler, AdminWebHandler, DNSFilterWebservice), the response     *)
(* encoder (_get_response, _get_response_str) and the whitelist store the  *)
(* handlers talk to.                                                       *)
(*                                                                         *)
(* A Python string is a sequence of one-character strings, so that         *)
(* startswith, replace, join and json.dumps are computed character by      *)
(* character.  A value returned by a render_* method is tagged with its    *)
(* Python type: [kind |-> "str", val |-> chars] or                         *)
(* [kind |-> "list", val |-> sequence of strings].                         *)
(***************************************************************************)
EXTENDS Integers, Sequences, FiniteSets, TLC

VARIABLES store, pre, req, resp, calls, tree, served, procs

vars == <<store, pre, req, resp, calls, tree, served, procs>>

(***************************************************************************)
(* Bounds of the model.                                                    *)
(***************************************************************************)
\* How many names of DomainPool requests may use.
NumNames == 4
\* How many values a request may carry for one argument.
MaxValues == 2
\* How many requests may be in progress at once in SpecConc.
NumProcs == 2

(***************************************************************************)
(* String literals of the program.                                         *)
(***************************************************************************)
S_DOMAINS == <<"d", "o", "m", "a", "i", "n", "s">>
S_ADMIN == <<"a", "d", "m", "i", "n">>
S_UNKNOWN == <<"u", "n", "k", "n", "o", "w", "n">>
S_PATH == <<"p", "a", "t", "h">>
SLASH == <<"/">>
NEWLINE == <<"\n">>

P_DOMAINS == SLASH \o S_DOMAINS
P_DOMAINS_SLASH == SLASH \o S_DOMAINS \o SLASH

BAD_REQUEST_STR == <<"B", "A", "D", " ", "R", "E", "Q", "U", "E", "S", "T", "\n">>
CREATED_STR == <<"C", "R", "E", "A", "T", "E", "D", "\n">>
NOT_FOUND_STR == <<"N", "O", "T", " ", "F", "O", "U", "N", "D", "\n">>
DELETED_STR == <<"D", "E", "L", "E", "T", "E", "D", "\n">>
NOT_IMPLEMENTED_STR ==
    <<"N", "O", "T", " ", "I", "M", "P", "L", "E", "M", "E", "N", "T", "E", "D", "\n">>
WELCOME_STR == <<"W", "E", "L", "C", "O", "M", "E", "\n">>
ADMIN_STR ==
    <<"A", "D", "M", "I", "N", " ", "U", "I", " ", "N", "O", "T", " ",
      "I", "M", "P", "L", "E", "M", "E", "N", "T", "E", "D", "\n">>

\* twisted.web.http status codes used by the handlers and the framework.
OK == 200
BAD_REQUEST == 400
NOT_FOUND == 404
NOT_ALLOWED == 405
NOT_IMPLEMENTED == 501

(***************************************************************************)
(* Python values.                                                          *)
(***************************************************************************)
PyStr(s) == [kind |-> "str", val |-> s]
PyList(l) == [kind |-> "list", val |-> l]
PyNone == [kind |-> "none", val |-> <<>>]

IsStr(v, s) == v.kind = "str" /\ v.val = s
IsList(v, l) == v.kind = "list" /\ v.val = l

(***************************************************************************)
(* str.startswith, str.replace, str.split, str.join.                       *)
(***************************************************************************)
startswith(s, p) == Len(s) >= Len(p) /\ SubSeq(s, 1, Len(p)) = p

RECURSIVE replace(_, _, _)
\* s.replace(old, new): every non-overlapping occurrence, left to right.
replace(s, old, new) ==
    IF s = <<>> THEN <<>>
    ELSE IF startswith(s, old)
         THEN new \o replace(SubSeq(s, Len(old) + 1, Len(s)), old, new)
         ELSE <<Head(s)>> \o replace(Tail(s), old, new)

RECURSIVE split(_, _)
\* s.split(c) for a one-character separator c.
split(s, c) ==
    IF \A i \in 1..Len(s) : s[i] # c THEN <<s>>
    ELSE LET k == CHOOSE i \in 1..Len(s) :
                      s[i] = c /\ \A j \in 1..(i - 1) : s[j] # c
         IN <<SubSeq(s, 1, k - 1)>> \o split(SubSeq(s, k + 1, Len(s)), c)

RECURSIVE join(_, _)
\* sep.join(l)
join(sep, l) ==
    IF l = <<>> THEN <<>>
    ELSE IF Len(l) = 1 THEN l[1]
         ELSE l[1] \o sep \o join(sep, Tail(l))

(***************************************************************************)
(* The whitelist store behind whitelists.load(url): contains, add, delete  *)
(* and get_all over the sequence of stored names (enumeration order).      *)
(***************************************************************************)
wl_contains(st, name) == \E i \in 1..Len(st) : st[i] = name

wl_add(st, name) == IF wl_contains(st, name) THEN st ELSE Append(st, name)

wl_delete(st, name) == SelectSeq(st, LAMBDA x : x # name)

wl_get_all(st) == st

(***************************************************************************)
(* Requests.  args is a set of <<key, values>> pairs with distinct keys.   *)
(***************************************************************************)
HasArg(args, key) == \E p \in args : p[1] = key

Arg(args, key) == (CHOOSE p \in args : p[1] = key)[2]

\* request.getHeader("Content-Type"): "absent" stands for None.
getHeader(request) == request.ctype

\* The outcome of a render_* method: the response code and headers it set on
\* the request, the value it returned, the store it left and the store calls
\* it made.
Outcome(code, headers, result, st, cs) ==
    [code |-> code, headers |-> headers, result |-> result, store |-> st, calls |-> cs]

(***************************************************************************)
(* DNSFilterWebservice                                                     *)
(***************************************************************************)
\* render_POST with the membership test inverted: an absent name is not added.
render_POST_inverted(request, st) ==
    IF request.path = P_DOMAINS
    THEN IF ~HasArg(request.args, "domain")
         THEN Outcome(BAD_REQUEST, {}, PyStr(BAD_REQUEST_STR), st, <<>>)
         ELSE LET domain == Arg(request.args, "domain")[1]
                  present == wl_contains(st, domain)
              IN Outcome(OK,
                         {<<"Location", P_DOMAINS_SLASH \o domain>>},
                         PyStr(CREATED_STR),
                         IF present THEN wl_add(st, domain) ELSE st,
                         <<<<"contains", domain>>>> \o
                             (IF present THEN <<<<"add", domain>>>> ELSE <<>>))
    ELSE Outcome(NOT_FOUND, {}, PyStr(NOT_FOUND_STR), st, <<>>)

\* render_POST that takes a missing domain argument for the empty name
\* instead of refusing the request.
render_POST_default(request, st) ==
    IF request.path = P_DOMAINS
    THEN LET domain == IF HasArg(request.args, "domain")
                       THEN Arg(request.args, "domain")[1] ELSE <<>>
             present == wl_contains(st, domain)
         IN Outcome(OK,
                    {<<"Location", P_DOMAINS_SLASH \o domain>>},
                    PyStr(CREATED_STR),
                    IF ~present THEN wl_add(st, domain) ELSE st,
                    <<<<"contains", domain>>>> \o
                        (IF ~present THEN <<<<"add", domain>>>> ELSE <<>>))
    ELSE Outcome(NOT_FOUND, {}, PyStr(NOT_FOUND_STR), st, <<>>)

\* render_POST that accepts every path that starts with /domains.
render_POST_prefix(request, st) ==
    IF startswith(request.path, P_DOMAINS)
    THEN IF ~HasArg(request.args, "domain")
         THEN Outcome(BAD_REQUEST, {}, PyStr(BAD_REQUEST_STR), st, <<>>)
         ELSE LET domain == Arg(request.args, "domain")[1]
                  present == wl_contains(st, domain)
              IN Outcome(OK,
                         {<<"Location", P_DOMAINS_SLASH \o domain>>},
                         PyStr(CREATED_STR),
                         IF ~present THEN wl_add(st, domain) ELSE st,
                         <<<<"contains", domain>>>> \o
                             (IF ~present THEN <<<<"add", domain>>>> ELSE <<>>))
    ELSE Outcome(NOT_FOUND, {}, PyStr(NOT_FOUND_STR), st, <<>>)

\* render_POST that takes the last value of the domain argument.
render_POST_last(request, st) ==
    IF request.path = P_DOMAINS
    THEN IF ~HasArg(request.args, "domain")
         THEN Outcome(BAD_REQUEST, {}, PyStr(BAD_REQUEST_STR), st, <<>>)
         ELSE LET values == Arg(request.args, "domain")
                  domain == values[Len(values)]
                  present == wl_contains(st, domain)
              IN Outcome(OK,
                         {<<"Location", P_DOMAINS_SLASH \o domain>>},
                         PyStr(CREATED_STR),
                         IF ~present THEN wl_add(st, domain) ELSE st,
                         <<<<"contains", domain>>>> \o
                             (IF ~present THEN <<<<"add", domain>>>> ELSE <<>>))
    ELSE Outcome(NOT_FOUND, {}, PyStr(NOT_FOUND_STR), st, <<>>)

render_POST(request, st) ==
    IF request.path = P_DOMAINS
    THEN IF ~HasArg(request.args, "domain")
         THEN Outcome(BAD_REQUEST, {}, PyStr(BAD_REQUEST_STR), st, <<>>)
         ELSE LET domain == Arg(request.args, "domain")[1]
                  present == wl_contains(st, domain)
              IN Outcome(OK,
                         {<<"Location", P_DOMAINS_SLASH \o domain>>},
                         PyStr(CREATED_STR),
                         IF ~present THEN wl_add(st, domain) ELSE st,
                         <<<<"contains", domain>>>> \o
                             (IF ~present THEN <<<<"add", domain>>>> ELSE <<>>))
    ELSE Outcome(NOT_FOUND, {}, PyStr(NOT_FOUND_STR), st, <<>>)

\* render_GET that accepts every path that starts with /domains.
render_GET_prefix(request, st) ==
    IF startswith(request.path, P_DOMAINS)
    THEN Outcome(OK, {}, PyList(wl_get_all(st)), st, <<<<"get_all", <<>>>>>>)
    ELSE Outcome(NOT_FOUND, {}, PyStr(NOT_FOUND_STR), st, <<>>)

render_GET(request, st) ==
    IF request.path = P_DOMAINS
    THEN Outcome(OK, {}, PyList(wl_get_all(st)), st, <<<<"get_all", <<>>>>>>)
    ELSE Outcome(NOT_FOUND, {}, PyStr(NOT_FOUND_STR), st, <<>>)

\* render_DELETE that calls delete without looking at the answer of contains.
render_DELETE_unchecked(request, st) ==
    IF startswith(request.path, P_DOMAINS_SLASH)
    THEN LET domain == replace(request.path, P_DOMAINS_SLASH, <<>>)
         IN Outcome(OK, {}, PyStr(DELETED_STR), wl_delete(st, domain),
                    <<<<"contains", domain>>, <<"delete", domain>>>>)
    ELSE Outcome(NOT_FOUND, {}, PyStr(NOT_FOUND_STR), st, <<>>)

render_DELETE(request, st) ==
    IF startswith(request.path, P_DOMAINS_SLASH)
    THEN LET domain == replace(request.path, P_DOMAINS_SLASH, <<>>)
         IN IF wl_contains(st, domain)
            THEN Outcome(OK, {}, PyStr(DELETED_STR), wl_delete(st, domain),
                         <<<<"contains", domain>>, <<"delete", domain>>>>)
            ELSE Outcome(NOT_FOUND, {}, PyStr(NOT_FOUND_STR), st,
                         <<<<"contains", domain>>>>)
    ELSE Outcome(NOT_FOUND, {}, PyStr(NOT_FOUND_STR), st, <<>>)

\* render_PUT that forgets to set the response code.
render_PUT_ok(request, st) ==
    Outcome(OK, {}, PyStr(NOT_IMPLEMENTED_STR), st, <<>>)

render_PUT(request, st) ==
    Outcome(NOT_IMPLEMENTED, {}, PyStr(NOT_IMPLEMENTED_STR), st, <<>>)

(***************************************************************************)
(* WelcomeHandler, AdminWebHandler                                         *)
(***************************************************************************)
Welcome_render_GET(request, st) == Outcome(OK, {}, PyStr(WELCOME_STR), st, <<>>)

Admin_render_GET(request, st) == Outcome(OK, {}, PyStr(ADMIN_STR), st, <<>>)

(***************************************************************************)
(* Response encoding: _get_response_str, json.dumps, _get_response.        *)
(***************************************************************************)
\* _get_response_str without the trailing newline of a listing.
_get_response_str_nonl(data) ==
    IF data.kind = "str" THEN data.val
    ELSE join(NEWLINE, data.val)

_get_response_str(data) ==
    IF data.kind = "str" THEN data.val
    ELSE join(NEWLINE, data.val) \o NEWLINE

\* json.dumps of one character inside a string literal.
json_escape(c) ==
    IF c = "\"" THEN <<"\\", "\"">>
    ELSE IF c = "\\" THEN <<"\\", "\\">>
    ELSE IF c = "\n" THEN <<"\\", "n">>
    ELSE <<c>>

RECURSIVE json_escape_all(_)
json_escape_all(s) ==
    IF s = <<>> THEN <<>> ELSE json_escape(Head(s)) \o json_escape_all(Tail(s))

json_dumps_str(s) == <<"\"">> \o json_escape_all(s) \o <<"\"">>

\* json.dumps(data) with the default separators (", " between items).
json_dumps(data) ==
    IF data.kind = "str" THEN json_dumps_str(data.val)
    ELSE <<"[">> \o
         join(<<",", " ">>, [i \in 1..Len(data.val) |-> json_dumps_str(data.val[i])]) \o
         <<"]">>

_get_response(request, data) ==
    LET content_type == getHeader(request)
    IN IF content_type = "application/json"
       THEN json_dumps(data)
       ELSE _get_response_str(data)

(***************************************************************************)
(* Routing.  A resource is named by its class: "root", "welcome", "admin", *)
(* "domains", or "noresource" for the framework's NoResource error page.   *)
(***************************************************************************)
\* The children registered by RootWebResource.__init__ (putChild).
RootChildren == {<<S_DOMAINS, "domains">>, <<S_ADMIN, "admin">>}

\* The default of --storage-url, which start hands to the root as args.url.
STORAGE_URL == "mongo:localhost:27017:dnsfilter"

\* The routing tree after construction: the root's registered children and
\* the storage URL the domains resource was given.
InitTree == [children |-> RootChildren, storage_url |-> STORAGE_URL]

\* getChild where the root, too, inherits Resource.getChild.
getChild_inherited(kind, segment) ==
    IF kind = "domains" THEN "domains"
    ELSE "noresource"

\* The getChild of each class; WelcomeHandler and AdminWebHandler inherit
\* Resource.getChild, which answers NoResource.
getChild(kind, segment) ==
    IF kind = "root" THEN "welcome"
    ELSE IF kind = "domains" THEN "domains"
    ELSE "noresource"

\* Resource.getChildWithDefault: a registered child of the root, else
\* getChild.  kids is the set of children registered on the root.
getChildWithDefault(kids, kind, segment) ==
    IF kind = "root" /\ \E c \in kids : c[1] = segment
    THEN (CHOOSE c \in kids : c[1] = segment)[2]
    ELSE getChild(kind, segment)

RECURSIVE getChildForRequest(_, _, _)
\* Walks the path segments left of the request down the tree.
getChildForRequest(kids, kind, postpath) ==
    IF postpath = <<>> THEN kind
    ELSE getChildForRequest(kids, getChildWithDefault(kids, kind, Head(postpath)),
                            Tail(postpath))

\* Site.getResourceFor: the segments of path[1:] resolved from the root.
getResourceFor(kids, request) ==
    getChildForRequest(kids, "root", split(Tail(request.path), "/"))

\* getChild that also registers the resource it answers on the root.
getChild_registers(kids, kind, segment) ==
    IF kind = "root" THEN kids \cup {<<segment, "welcome">>} ELSE kids

\* The root's registered children after a getChild call: getChild answers a
\* new resource and registers nothing.
getChild_children(kids, kind, segment) == kids

RECURSIVE childrenAfter(_, _, _)
\* The root's registered children after the walk down the tree.
childrenAfter(kids, kind, postpath) ==
    IF postpath = <<>> THEN kids
    ELSE LET segment == Head(postpath)
             registered == kind = "root" /\ \E c \in kids : c[1] = segment
             after == IF registered THEN kids
                      ELSE getChild_children(kids, kind, segment)
         IN childrenAfter(after, getChildWithDefault(kids, kind, segment),
                          Tail(postpath))

\* The storage URL of the resource DNSFilterWebservice.getChild answers:
\* that of the resource asked.
getChild_storage_url(url) == url

RECURSIVE storageUrlFor(_, _, _)
\* The storage URL carried by the resource the walk ends at; "none" for the
\* classes that have none.
storageUrlFor(url, kind, postpath) ==
    IF postpath = <<>> THEN (IF kind = "domains" THEN url ELSE "none")
    ELSE storageUrlFor(IF kind = "domains" THEN getChild_storage_url(url) ELSE url,
                       getChild(kind, Head(postpath)), Tail(postpath))

(***************************************************************************)
(* Dispatch.                                                               *)
(***************************************************************************)
\* The methods when DNSFilterWebservice defines no render_PUT.
Methods_noPUT(kind) ==
    IF kind = "domains" THEN {"GET", "POST", "DELETE"}
    ELSE IF kind \in {"welcome", "admin"} THEN {"GET"}
    ELSE {}

\* The render_<method> methods each class defines.
Methods(kind) ==
    IF kind = "domains" THEN {"GET", "POST", "DELETE", "PUT"}
    ELSE IF kind \in {"welcome", "admin"} THEN {"GET"}
    ELSE {}

\* resource.Resource.render: calls render_<method>, or raises
\* UnsupportedMethod when the class has none.
Resource_render(kind, request, st) ==
    IF request.method \notin Methods(kind)
    THEN [fault |-> "UnsupportedMethod", out |-> Outcome(OK, {}, PyNone, st, <<>>)]
    ELSE [fault |-> "none",
          out |-> IF kind = "welcome" THEN Welcome_render_GET(request, st)
                  ELSE IF kind = "admin" THEN Admin_render_GET(request, st)
                  ELSE IF request.method = "GET" THEN render_GET(request, st)
                  ELSE IF request.method = "POST" THEN render_POST(request, st)
                  ELSE IF request.method = "DELETE" THEN render_DELETE(request, st)
                  ELSE render_PUT(request, st)]

\* WebResource.render: the method's return value through _get_response; an
\* exception of Resource.render propagates.
WebResource_render(kind, request, st) ==
    LET r == Resource_render(kind, request, st)
    IN [fault |-> r.fault,
        out |-> r.out,
        body |-> IF r.fault = "none" THEN _get_response(request, r.out.result) ELSE <<>>]

TEXT_HTML == <<"t", "e", "x", "t", "/", "h", "t", "m", "l">>
\* The body of the framework's error pages, abbreviated to its frame.
ERROR_PAGE == <<"<", "h", "t", "m", "l", ">">>

Response(code, headers, result, body, fault) ==
    [code |-> code, headers |-> headers, result |-> result, body |-> body,
     fault |-> fault]

\* The framework around the resource tree (server.Site, Request.render):
\* resolves the resource, renders it, and turns UnsupportedMethod into an
\* error page: 405 for GET, HEAD and POST, 501 for any other method.
\* NoResource renders a 404 error page for every method.
Request_render(kids, request, st) ==
    LET kind == getResourceFor(kids, request)
    IN IF kind = "noresource"
       THEN [resp |-> Response(NOT_FOUND, {<<"Content-Type", TEXT_HTML>>}, PyNone,
                               ERROR_PAGE, "none"),
             store |-> st, calls |-> <<>>]
       ELSE LET r == WebResource_render(kind, request, st)
            IN IF r.fault = "UnsupportedMethod"
               THEN [resp |-> Response(IF request.method \in {"GET", "HEAD", "POST"}
                                       THEN NOT_ALLOWED ELSE NOT_IMPLEMENTED,
                                       {<<"Content-Type", TEXT_HTML>>}, PyNone,
                                       ERROR_PAGE, r.fault),
                     store |-> r.out.store, calls |-> r.out.calls]
               ELSE [resp |-> Response(r.out.code, r.out.headers, r.out.result,
                                       r.body, "none"),
                     store |-> r.out.store, calls |-> r.out.calls]

\* The resource that serves the request: its class and the storage URL it
\* carries.
servedBy(t, request) ==
    LET postpath == split(Tail(request.path), "/")
        kind == getChildForRequest(t.children, "root", postpath)
    IN [kind |-> kind,
        storage_url |-> IF kind = "domains"
                        THEN storageUrlFor(t.storage_url, "domains", Tail(postpath))
                        ELSE "none"]

\* The routing tree the request leaves behind.
treeAfter(t, request) ==
    [children |-> childrenAfter(t.children, "root", split(Tail(request.path), "/")),
     storage_url |-> t.storage_url]

(***************************************************************************)
(* The requests the model sends.                                           *)
(***************************************************************************)
N_A == <<"a">>
N_B == <<"b">>
N_EMPTY == <<>>
\* A name that contains the item-path prefix.
N_PREFIX == P_DOMAINS_SLASH
N_AB == <<"a", "b">>
N_BA == <<"b", "a">>

DomainPool == <<N_A, N_B, N_EMPTY, N_PREFIX, N_AB, N_BA>>

Names == {DomainPool[i] : i \in 1..NumNames}

P_ROOT == SLASH
P_ADMIN == SLASH \o S_ADMIN
P_ADMIN_SUB == SLASH \o S_ADMIN \o SLASH \o S_PATH
P_UNKNOWN == SLASH \o S_UNKNOWN
P_UNKNOWN_PATH == SLASH \o S_UNKNOWN \o SLASH \o S_PATH

ItemPath(name) == P_DOMAINS_SLASH \o name

Paths ==
    {P_ROOT, P_ADMIN, P_ADMIN_SUB, P_UNKNOWN, P_UNKNOWN_PATH, P_DOMAINS}
        \cup {ItemPath(n) : n \in Names}

ValueSeqs == UNION {[1..n -> Names] : n \in 1..MaxValues}

ArgSets ==
    {{}} \cup {{<<"other", <<N_A>>>>}} \cup {{<<"domain", vs>>} : vs \in ValueSeqs}

ContentTypes == {"absent", "application/json", "text/plain"}

NoRequest == [method |-> "NONE", path |-> <<>>, args |-> {}, ctype |-> "absent"]
NoResponse == Response(0, {}, PyNone, <<>>, "none")
NoResource == [kind |-> "none", storage_url |-> "none"]

\* The requests in progress at once, and the names they are about.
Procs == 1..NumProcs
ConcNames == {N_A, N_B}

\* A request in progress: where its handler stands (pc), the name it is
\* about, what its contains call answered, the store call it then made,
\* whether that call's precondition held when it was made (call_ok), whether
\* the call changed the store (effect), whether another request's call on
\* the same name came between its contains and its own call (interfered),
\* and the status it answered.
IdleProc ==
    [pc |-> "idle", method |-> "NONE", domain |-> <<>>, present |-> FALSE,
     call |-> "none", call_ok |-> TRUE, effect |-> FALSE, interfered |-> FALSE,
     code |-> 0]

Init ==
    /\ store = <<>>
    /\ pre = <<>>
    /\ req = NoRequest
    /\ resp = NoResponse
    /\ calls = <<>>
    /\ tree = InitTree
    /\ served = NoResource
    /\ procs = [p \in Procs |-> IdleProc]

\* No request is being served.
Idle == req = NoRequest

\* One request served from start to end; pre keeps the store as it was when
\* the request arrived.
Serve(request) ==
    \E r \in {Request_render(tree.children, request, store)} :
        /\ req' = request
        /\ pre' = store
        /\ resp' = r.resp
        /\ store' = r.store
        /\ calls' = r.calls
        /\ served' = servedBy(tree, request)
        /\ tree' = treeAfter(tree, request)
        /\ UNCHANGED procs

\* The arguments sent where the handler reads none.
FewArgSets == {{}, {<<"domain", <<N_A>>>>}}

GET ==
    /\ Idle
    /\ \E path \in Paths, ctype \in ContentTypes :
          Serve([method |-> "GET", path |-> path, args |-> {}, ctype |-> ctype])

POST ==
    /\ Idle
    /\ \E path \in Paths, ctype \in ContentTypes :
          \E args \in (IF path = P_DOMAINS THEN ArgSets ELSE FewArgSets) :
              Serve([method |-> "POST", path |-> path, args |-> args, ctype |-> ctype])

DELETE ==
    /\ Idle
    /\ \E path \in Paths, ctype \in ContentTypes :
          Serve([method |-> "DELETE", path |-> path, args |-> {}, ctype |-> ctype])

PUT ==
    /\ Idle
    /\ \E path \in Paths, args \in FewArgSets, ctype \in ContentTypes :
          Serve([method |-> "PUT", path |-> path, args |-> args, ctype |-> ctype])

\* The response is written and the request object is dropped; the store is
\* all that the next request finds.
finish ==
    /\ ~Idle
    /\ req' = NoRequest
    /\ resp' = NoResponse
    /\ pre' = store
    /\ calls' = <<>>
    /\ served' = NoResource
    /\ UNCHANGED <<store, tree, procs>>

Next == GET \/ POST \/ DELETE \/ PUT \/ finish

Spec == Init /\ [][Next]_vars

(***************************************************************************)
(* Requests in progress at once.  Every store call is atomic; a handler    *)
(* may be overtaken between its contains call and its add or delete call.  *)
(* The requests are the ones that reach the store: POST /domains with      *)
(* domain=d and DELETE /domains/d.                                         *)
(***************************************************************************)
CreateRequest(d) ==
    [method |-> "POST", path |-> P_DOMAINS, args |-> {<<"domain", <<d>>>>},
     ctype |-> "absent"]

DeleteRequest(d) ==
    [method |-> "DELETE", path |-> ItemPath(d), args |-> {}, ctype |-> "absent"]

\* render_POST up to the answer of wl.contains(domain).
POST_contains(request, st) ==
    LET domain == Arg(request.args, "domain")[1]
    IN [domain |-> domain, present |-> wl_contains(st, domain)]

\* render_POST after contains: the store call it makes.
POST_call(present) == IF ~present THEN "add" ELSE "none"

\* render_DELETE up to the answer of wl.contains(domain).
DELETE_contains(request, st) ==
    LET domain == replace(request.path, P_DOMAINS_SLASH, <<>>)
    IN [domain |-> domain, present |-> wl_contains(st, domain)]

\* render_DELETE that deletes whatever contains answered.
DELETE_call_always(present) == "delete"

\* render_DELETE after contains: the store call it makes.
DELETE_call(present) == IF present THEN "delete" ELSE "none"

\* render_DELETE after contains: the status it answers.
DELETE_code(present) == IF present THEN OK ELSE NOT_FOUND

\* The other requests that stand between contains and their call on the
\* name d are overtaken by a call of p that changes the store.
Overtake(p, d, changed) ==
    [q \in Procs |->
        IF q # p /\ changed /\ procs[q].pc = "checked" /\ procs[q].domain = d
        THEN [procs[q] EXCEPT !.interfered = TRUE]
        ELSE procs[q]]

conc_contains(p) ==
    /\ procs[p].pc = "idle"
    /\ \E d \in ConcNames, method \in {"POST", "DELETE"} :
          \E c \in {IF method = "POST" THEN POST_contains(CreateRequest(d), store)
                                       ELSE DELETE_contains(DeleteRequest(d), store)} :
              procs' = [procs EXCEPT ![p] =
                           [IdleProc EXCEPT !.pc = "checked", !.method = method,
                                            !.domain = c.domain,
                                            !.present = c.present]]
    /\ UNCHANGED <<store, pre, req, resp, calls, tree, served>>

conc_add(p) ==
    /\ procs[p].pc = "checked"
    /\ procs[p].method = "POST"
    /\ LET me == procs[p]
           call == POST_call(me.present)
           after == IF call = "add" THEN wl_add(store, me.domain) ELSE store
       IN /\ store' = after
          /\ procs' = [Overtake(p, me.domain, after # store) EXCEPT ![p] =
                          [me EXCEPT !.pc = "done", !.call = call,
                                     !.call_ok = (call = "add" =>
                                                     ~wl_contains(store, me.domain)),
                                     !.effect = (after # store),
                                     !.code = OK]]
    /\ UNCHANGED <<pre, req, resp, calls, tree, served>>

conc_delete(p) ==
    /\ procs[p].pc = "checked"
    /\ procs[p].method = "DELETE"
    /\ LET me == procs[p]
           call == DELETE_call(me.present)
           after == IF call = "delete" THEN wl_delete(store, me.domain) ELSE store
       IN /\ store' = after
          /\ procs' = [Overtake(p, me.domain, after # store) EXCEPT ![p] =
                          [me EXCEPT !.pc = "done", !.call = call,
                                     !.call_ok = (call = "delete" =>
                                                     wl_contains(store, me.domain)),
                                     !.effect = (after # store),
                                     !.code = DELETE_code(me.present)]]
    /\ UNCHANGED <<pre, req, resp, calls, tree, served>>

conc_finish(p) ==
    /\ procs[p].pc = "done"
    /\ procs' = [procs EXCEPT ![p] = IdleProc]
    /\ UNCHANGED <<store, pre, req, resp, calls, tree, served>>

NextConc ==
    \E p \in Procs :
        conc_contains(p) \/ conc_add(p) \/ conc_delete(p) \/ conc_finish(p)

SpecConc == Init /\ [][NextConc]_vars

(***************************************************************************)
(* Vocabulary of the properties.                                           *)
(***************************************************************************)
Count(l, x) == Cardinality({i \in 1..Len(l) : l[i] = x})

\* The class of the resource the last request resolved to.
Resolved == served.kind

IsPost == req.method = "POST"
IsGet == req.method = "GET"
IsDelete == req.method = "DELETE"
IsPut == req.method = "PUT"

\* A POST to exactly /domains that carries a domain argument, and its name.
IsCreate == IsPost /\ req.path = P_DOMAINS /\ HasArg(req.args, "domain")
Created == Arg(req.args, "domain")[1]

UnderDomains == startswith(req.path, P_DOMAINS_SLASH)

RECURSIVE EachLine(_)
\* Every element followed by a newline.
EachLine(l) == IF l = <<>> THEN <<>> ELSE Head(l) \o NEWLINE \o EachLine(Tail(l))

\* The plain listing: every element followed by a newline, and a single
\* newline for no element.
ExpectedPlain(l) == IF l = <<>> THEN NEWLINE ELSE EachLine(l)

\* A reader of JSON strings and of JSON arrays of strings.
Unescape(c) == IF c = "n" THEN "\n" ELSE c

RECURSIVE ParseChars(_, _, _)
\* Reads string characters from b[i] up to the closing quote; next is the
\* index after the quote, 0 when the text is malformed.
ParseChars(b, i, acc) ==
    IF i > Len(b) THEN [val |-> acc, next |-> 0]
    ELSE IF b[i] = "\"" THEN [val |-> acc, next |-> i + 1]
    ELSE IF b[i] = "\\"
         THEN IF i + 1 > Len(b) THEN [val |-> acc, next |-> 0]
              ELSE ParseChars(b, i + 2, Append(acc, Unescape(b[i + 1])))
         ELSE ParseChars(b, i + 1, Append(acc, b[i]))

RECURSIVE SkipSpaces(_, _)
SkipSpaces(b, i) == IF i <= Len(b) /\ b[i] = " " THEN SkipSpaces(b, i + 1) ELSE i

RECURSIVE ParseItems(_, _, _)
\* Reads "s1", "s2", ... "sn"] from b[i].
ParseItems(b, i, acc) ==
    IF i > Len(b) \/ b[i] # "\"" THEN PyNone
    ELSE \* the item, then the index of what follows it
         (LET item == ParseChars(b, i + 1, <<>>)
              k == SkipSpaces(b, item.next)
          IN IF item.next = 0 \/ k > Len(b) THEN PyNone
             ELSE IF b[k] = "]"
                  THEN IF k = Len(b) THEN PyList(Append(acc, item.val)) ELSE PyNone
             ELSE IF b[k] = ","
                  THEN ParseItems(b, SkipSpaces(b, k + 1), Append(acc, item.val))
             ELSE PyNone)

JsonLoads(b) ==
    IF b = <<>> THEN PyNone
    ELSE IF b[1] = "\""
         THEN (LET r == ParseChars(b, 2, <<>>)
               IN IF r.next = Len(b) + 1 THEN PyStr(r.val) ELSE PyNone)
    ELSE IF b[1] = "["
         THEN IF b = <<"[", "]">> THEN PyList(<<>>) ELSE ParseItems(b, 2, <<>>)
    ELSE PyNone

\* The response body carries the message msg: as it is in the plain format,
\* as a JSON string when the request asked for JSON.
BodyIs(msg) ==
    IF req.ctype = "application/json"
    THEN IsStr(JsonLoads(resp.body), msg)
    ELSE resp.body = msg

\* The response body carries the listing l.
BodyLists(l) ==
    IF req.ctype = "application/json"
    THEN IsList(JsonLoads(resp.body), l)
    ELSE resp.body = ExpectedPlain(l)

Mutates(cs) == \E i \in 1..Len(cs) : cs[i][1] \in {"add", "delete"}

(***************************************************************************)
(* C1.  Idempotent create: a POST to /domains with domain=d succeeds       *)
(* (status 200, body CREATED) in every store state, also when d is already *)
(* present, and then leaves the store as it was; after it d is stored      *)
(* exactly once, no name is ever stored twice, and a GET /domains lists    *)
(* every name as often as it is stored, so d once.                         *)
(***************************************************************************)
C1_IdempotentCreate ==
    /\ \A i, j \in 1..Len(store) : store[i] = store[j] => i = j
    /\ IsCreate =>
          /\ resp.code = OK
          /\ BodyIs(CREATED_STR)
          /\ Count(store, Created) = 1
          /\ (wl_contains(pre, Created) => store = pre)
    /\ (IsGet /\ req.path = P_DOMAINS) =>
          /\ resp.result.kind = "list"
          /\ \A d \in Names : Count(resp.result.val, d) = Count(store, d)

\* The second of two POSTs of the same name: the name was stored already.
C1_Witness ==
    /\ IsCreate
    /\ wl_contains(pre, Created)
    /\ resp.code = OK
    /\ Len(store) >= 2

(***************************************************************************)
(* C2.  Round trip, for every domain name d: POST /domains with domain=d   *)
(* stores d, GET /domains lists what is stored, DELETE /domains/d of a     *)
(* stored d answers 200 DELETED and d is no longer stored.                 *)
(***************************************************************************)
C2_RoundTrip ==
    /\ IsCreate => wl_contains(store, Created)
    /\ (IsGet /\ req.path = P_DOMAINS) => BodyLists(store)
    /\ \A d \in Names :
          (IsDelete /\ req.path = ItemPath(d) /\ wl_contains(pre, d)) =>
              /\ resp.code = OK
              /\ BodyIs(DELETED_STR)
              /\ ~wl_contains(store, d)

(***************************************************************************)
(* C3.  Existence gating: DELETE /domains/x for a name x that is not       *)
(* stored answers 404 NOT FOUND and leaves the store as it was.            *)
(***************************************************************************)
C3_ExistenceGating ==
    \A x \in Names :
        (IsDelete /\ req.path = ItemPath(x) /\ ~wl_contains(pre, x)) =>
            /\ resp.code = NOT_FOUND
            /\ BodyIs(NOT_FOUND_STR)
            /\ store = pre

(***************************************************************************)
(* C4.  Validation: a POST to exactly /domains without a domain argument   *)
(* answers 400 BAD REQUEST, sets no Location header, makes no store call   *)
(* that mutates and leaves the store as it was.                            *)
(***************************************************************************)
C4_Validation ==
    (IsPost /\ req.path = P_DOMAINS /\ ~HasArg(req.args, "domain")) =>
        /\ resp.code = BAD_REQUEST
        /\ BodyIs(BAD_REQUEST_STR)
        /\ \A h \in resp.headers : h[1] # "Location"
        /\ ~Mutates(calls)
        /\ store = pre

\* The refused POST, sent while the store holds names and with another
\* argument than domain.
C4_Witness ==
    /\ IsPost
    /\ req.path = P_DOMAINS
    /\ ~HasArg(req.args, "domain")
    /\ HasArg(req.args, "other")
    /\ resp.code = BAD_REQUEST
    /\ pre # <<>>

Depth == Len(split(Tail(req.path), "/"))

C6_RoutingFallback ==
    /\ ~Idle => Resolved \in {"welcome", "admin", "domains", "noresource"}
    /\ (~Idle /\ Resolved # "domains") => (store = pre /\ calls = <<>>)
    /\ (IsGet /\ req.path \in {P_ROOT, P_UNKNOWN}) =>
          /\ Resolved = "welcome"
          /\ resp.code = OK
          /\ BodyIs(WELCOME_STR)
    /\ (IsGet /\ req.path = P_ADMIN) =>
          /\ resp.code = OK
          /\ BodyIs(ADMIN_STR)
    /\ (IsGet /\ req.path = P_UNKNOWN_PATH) => resp.code = NOT_FOUND

\* GET / answered while names are stored.
C6_Witness ==
    /\ IsGet
    /\ req.path = P_ROOT
    /\ resp.code = OK
    /\ resp.body = WELCOME_STR
    /\ store # <<>>

(***************************************************************************)
(* C7.  Read: a GET to exactly /domains answers 200 with a body that lists *)
(* exactly the stored names in the store's order; a GET to any other path  *)
(* under /domains (/domains/, /domains/<name>, also for a stored name)     *)
(* answers 404 NOT FOUND; the store is unchanged in both cases.            *)
(***************************************************************************)
C7_Read ==
    /\ (IsGet /\ req.path = P_DOMAINS) =>
          /\ resp.code = OK
          /\ IsList(resp.result, pre)
          /\ BodyLists(pre)
          /\ store = pre
    /\ (IsGet /\ UnderDomains) =>
          /\ resp.code = NOT_FOUND
          /\ BodyIs(NOT_FOUND_STR)
          /\ store = pre

\* GET /domains/<name> for a stored name.
C7_Witness ==
    /\ IsGet
    /\ \E d \in Names : req.path = ItemPath(d) /\ wl_contains(pre, d)
    /\ resp.code = NOT_FOUND

(***************************************************************************)
(* C8.  Content negotiation: the body of GET /domains is a JSON array      *)
(* equal to the stored sequence when Content-Type is exactly               *)
(* application/json, and for any other or no Content-Type it is every name *)
(* followed by a newline, a single newline when nothing is stored.         *)
(***************************************************************************)
C8_ContentNegotiation ==
    (IsGet /\ req.path = P_DOMAINS) =>
        IF req.ctype = "application/json"
        THEN /\ Head(resp.body) = "["
             /\ resp.body[Len(resp.body)] = "]"
             /\ IsList(JsonLoads(resp.body), pre)
        ELSE /\ resp.body = ExpectedPlain(pre)
             /\ (pre = <<>> => resp.body = NEWLINE)
             /\ (pre = <<N_A, N_B>> => resp.body = <<"a", "\n", "b", "\n">>)

\* The store holds [a, b] and the listing is asked for in JSON.
C8_Witness ==
    /\ IsGet
    /\ req.path = P_DOMAINS
    /\ pre = <<N_A, N_B>>
    /\ req.ctype = "application/json"
    /\ resp.body = <<"[", "\"", "a", "\"", ",", " ", "\"", "b", "\"", "]">>

(***************************************************************************)
(* C9.  Create response and path gating: a POST to exactly /domains with   *)
(* domain=d answers 200 CREATED with the header Location = /domains/d,     *)
(* whether or not d was stored, and d is stored afterwards; a POST to any  *)
(* other path under /domains answers 404 NOT FOUND and leaves the store    *)
(* unchanged, also when it carries a domain argument.                      *)
(***************************************************************************)
C9_CreateResponse ==
    /\ IsCreate =>
          /\ resp.code = OK
          /\ BodyIs(CREATED_STR)
          /\ resp.headers = {<<"Location", SLASH \o S_DOMAINS \o SLASH \o Created>>}
          /\ wl_contains(store, Created)
    /\ (IsPost /\ UnderDomains) =>
          /\ resp.code = NOT_FOUND
          /\ BodyIs(NOT_FOUND_STR)
          /\ resp.headers = {}
          /\ store = pre

\* A POST to an item path that carries a domain argument not yet stored.
C9_Witness ==
    /\ IsPost
    /\ UnderDomains
    /\ HasArg(req.args, "domain")
    /\ ~wl_contains(pre, Arg(req.args, "domain")[1])
    /\ resp.code = NOT_FOUND

\* A method the welcome resource or /admin does not implement.
Unimplemented ==
    /\ ~Idle
    /\ Resolved \in {"welcome", "admin"}
    /\ req.method \in {"POST", "DELETE", "PUT"}

AfterPrefix == SubSeq(req.path, Len(P_DOMAINS_SLASH) + 1, Len(req.path))

(***************************************************************************)
(* C11.  Delete name extraction: for every DELETE path that starts with    *)
(* /domains/, the name tested for membership, and the name deleted, is the *)
(* path with the one leading /domains/ removed, also when /domains/ occurs *)
(* again later in the path.                                                *)
(***************************************************************************)
C11_NameExtraction ==
    (IsDelete /\ UnderDomains) =>
        /\ Len(calls) >= 1
        /\ \A i \in 1..Len(calls) : calls[i][2] = AfterPrefix

(***************************************************************************)
(* C12.  Persistence and frame: a stored name leaves the store only by a   *)
(* DELETE of its own item path answered 200; a DELETE answered 200 removes *)
(* exactly the name its path names and a POST answered 200 adds at most    *)
(* the name of its argument; every other entry stays as it was.            *)
(***************************************************************************)
C12_Frame ==
    /\ \A d \in Names :
          (wl_contains(pre, d) /\ ~wl_contains(store, d)) =>
              (IsDelete /\ req.path = ItemPath(d) /\ resp.code = OK)
    /\ (IsDelete /\ UnderDomains /\ resp.code = OK) =>
          store = SelectSeq(pre, LAMBDA x : x # AfterPrefix)
    /\ IsCreate => (store = pre \/ store = Append(pre, Created))
    /\ (IsGet /\ req.path = P_DOMAINS) => IsList(resp.result, store)

(***************************************************************************)
(* C13.  Store-call preconditions, one request at a time: delete(name) is  *)
(* called only while name is stored and add(name) only while it is not,    *)
(* and each such call comes right after a contains(name) of the same       *)
(* request on the same name.                                               *)
(***************************************************************************)
C13_CallPreconditions ==
    \A i \in 1..Len(calls) :
        /\ calls[i][1] = "delete" => wl_contains(pre, calls[i][2])
        /\ calls[i][1] = "add" => ~wl_contains(pre, calls[i][2])
        /\ calls[i][1] \in {"add", "delete"} =>
              (i > 1 /\ calls[i - 1] = <<"contains", calls[i][2]>>)

\* A request that called delete, here through a path that names the empty
\* name.
C13_Witness ==
    /\ IsDelete
    /\ calls = <<<<"contains", N_EMPTY>>, <<"delete", N_EMPTY>>>>
    /\ Len(pre) >= 2

(***************************************************************************)
(* C15.  Status codes gate mutation: every response of the domains         *)
(* resource has status 200, 400, 404 or 501; a request answered with       *)
(* another status than 200 leaves the store as it was; the store changes   *)
(* only by a POST to exactly /domains or a DELETE under /domains/ that is  *)
(* answered 200.                                                           *)
(***************************************************************************)
C15_StatusGatesMutation ==
    /\ (~Idle /\ Resolved = "domains") =>
          resp.code \in {OK, BAD_REQUEST, NOT_FOUND, NOT_IMPLEMENTED}
    /\ (~Idle /\ resp.code # OK) => (store = pre /\ ~Mutates(calls))
    /\ (store # pre \/ Mutates(calls)) =>
          /\ resp.code = OK
          /\ \/ IsPost /\ req.path = P_DOMAINS
             \/ IsDelete /\ UnderDomains

\* A DELETE under /domains/ answered 404 while names are stored.
C15_Witness ==
    /\ IsDelete
    /\ UnderDomains
    /\ resp.code = NOT_FOUND
    /\ calls # <<>>
    /\ pre # <<>>

(***************************************************************************)
(* C16.  Non-empty domain: the store never holds the empty string; a POST  *)
(* to /domains whose domain argument has an empty first value adds no      *)
(* entry.                                                                  *)
(***************************************************************************)
C16_NonEmptyDomain ==
    /\ ~wl_contains(store, N_EMPTY)
    /\ (IsCreate /\ Created = N_EMPTY) => store = pre

(***************************************************************************)
(* C18.  First value only: when a POST to /domains carries several values  *)
(* for domain, the first one is the name tested for membership, added and  *)
(* put in the Location header; no other value is added.                    *)
(***************************************************************************)
C18_FirstValueOnly ==
    (IsCreate /\ Len(Arg(req.args, "domain")) > 1) =>
        LET values == Arg(req.args, "domain")
        IN /\ calls[1] = <<"contains", values[1]>>
           /\ \A i \in 1..Len(calls) : calls[i][2] = values[1]
           /\ resp.headers = {<<"Location", ItemPath(values[1])>>}
           /\ wl_contains(store, values[1])
           /\ \A i \in 2..Len(values) :
                 values[i] # values[1] =>
                     (wl_contains(store, values[i]) <=> wl_contains(pre, values[i]))

\* Two different values, neither of them stored before.
C18_Witness ==
    /\ IsCreate
    /\ Len(Arg(req.args, "domain")) = 2
    /\ Arg(req.args, "domain")[1] # Arg(req.args, "domain")[2]
    /\ ~wl_contains(pre, Arg(req.args, "domain")[1])
    /\ ~wl_contains(pre, Arg(req.args, "domain")[2])
    /\ pre # <<>>

(***************************************************************************)
(* C17.  Immutable routing, no state across requests: the root's           *)
(* registered children are {domains, admin} and the storage URL is the     *)
(* configured one after every request of any method and path; the resource *)
(* that serves a request under /domains carries that same storage URL; and *)
(* the response and the store a request leaves are those the tree as       *)
(* constructed gives for that request and the store it found.              *)
(***************************************************************************)
C17_ImmutableRouting ==
    /\ tree.children = {<<S_DOMAINS, "domains">>, <<S_ADMIN, "admin">>}
    /\ tree.storage_url = STORAGE_URL
    /\ served.kind = "domains" => served.storage_url = STORAGE_URL
    /\ ~Idle =>
          /\ served = servedBy(InitTree, req)
          /\ \E r \in {Request_render(InitTree.children, req, pre)} :
                resp = r.resp /\ store = r.store

\* A request below /domains/ served after earlier requests changed the
\* store, resolved through getChild of the domains resource.
C17_Witness ==
    /\ IsDelete
    /\ req.path = ItemPath(N_PREFIX)
    /\ served = [kind |-> "domains", storage_url |-> STORAGE_URL]
    /\ Len(pre) >= 2

(***************************************************************************)
(* C14.  Store-call preconditions under concurrent requests as first       *)
(* stated: also when handlers interleave between contains and add/delete,  *)
(* delete(name) is never called on a name absent at that moment, add(name) *)
(* never on a name present at that moment, and a DELETE answered 200       *)
(* removed an entry itself.                                                *)
(***************************************************************************)
C14_ConcurrentPreconditions ==
    \A p \in Procs :
        procs[p].pc = "done" =>
            /\ procs[p].call_ok
            /\ (procs[p].method = "DELETE" /\ procs[p].code = OK) => procs[p].effect

(***************************************************************************)
(* C14, amended.  Under concurrent requests a handler calls add(name) only *)
(* after its own contains(name) answered false and delete(name) only after *)
(* its own contains(name) answered true, and a DELETE is answered 200      *)
(* exactly when its contains answered true; the name's presence may have   *)
(* changed by the time of the call.  The preconditions hold at the call,   *)
(* and a DELETE answered 200 removed the entry itself, whenever no other   *)
(* request's add or delete of the same name came between the handler's     *)
(* contains and its call.                                                  *)
(***************************************************************************)
C14_OwnCheckOnly ==
    \A p \in Procs :
        procs[p].pc = "done" =>
            /\ procs[p].call = "add" => (procs[p].method = "POST" /\ ~procs[p].present)
            /\ procs[p].call = "delete" =>
                  (procs[p].method = "DELETE" /\ procs[p].present)
            /\ procs[p].method = "DELETE" =>
                  (procs[p].code = OK <=> procs[p].present)
            /\ procs[p].method = "POST" => procs[p].code = OK
            /\ ~procs[p].interfered =>
                  /\ procs[p].call_ok
                  /\ (procs[p].method = "DELETE" /\ procs[p].code = OK) =>
                        procs[p].effect

\* Two DELETEs of the same name both saw it stored; the second one's delete
\* found it gone and is answered 200 all the same.
C14_Witness ==
    \E p, q \in Procs :
        /\ p # q
        /\ procs[p].pc = "done" /\ procs[q].pc = "done"
        /\ procs[p].method = "DELETE" /\ procs[q].method = "DELETE"
        /\ procs[p].domain = procs[q].domain
        /\ procs[p].effect /\ ~procs[q].effect
        /\ procs[q].code = OK /\ ~procs[q].call_ok /\ procs[q].interfered

====
